---- MODULE Spec2Model ----
(***************************************************************************)
(* The MODM command line entry point, src/cli/__main__.py: a click group   *)
(* `cli`, on which the subcommand `build` is registered, run when the      *)
(* module is the program's entry point.                                    *)
(*                                                                         *)
(* One run is modelled: the module body executes top to bottom (the group  *)
(* is defined, the subcommand is added, the entry guard is evaluated), and *)
(* `cli()` then runs the group on the argument vector: the group's options *)
(* are parsed, the subcommand name is resolved against the registered      *)
(* commands, the group callback runs, the subcommand is invoked with the   *)
(* remaining arguments, and the process exits.  The calls `click.group()`, *)
(* `cli.add_command(build)` and `cli()` are modelled by what click does    *)
(* for them in standalone mode; `build` itself lives in cli/commands.py    *)
(* and is modelled from the specification as an opaque collaborator.       *)
(***************************************************************************)
EXTENDS Integers, Sequences, FiniteSets, TLC

(* Longest argument vector explored. *)
MaxArgs == 3

(* Tokens that begin with "-" (click treats them as options of the group). *)
OptionLike == {"--help", "--bogus", "--"}

(* Tokens that do not begin with "-": candidate subcommand names and       *)
(* plain arguments.                                                        *)
Names == {"build", "deploy", "x"}

Tokens == OptionLike \cup Names

ArgVectors == UNION {[1..n -> Tokens] : n \in 0..MaxArgs}

VARIABLES
    pc,          \* position of the run
    asMain,      \* __name__ == '__main__'
    argv,        \* sys.argv[1:]
    commands,    \* cli.commands: registered name -> command
    rest,        \* ctx.protected_args + ctx.args after the group's options
    cmdName,     \* ctx.invoked_subcommand ("none" while unresolved)
    calls,       \* subcommand invocations made, in order
    buildResult, \* how the invoked subcommand ended
    output,      \* what the run printed
    exitCode,    \* process exit status (-1 while running)
    env          \* state outside the process, as the subcommand may change it

vars == <<pc, asMain, argv, commands, rest, cmdName, calls, buildResult,
          output, exitCode, env>>

(* The object imported from .commands: a click command named `build`.      *)
BuildCommand == [name |-> "build", callback |-> "commands.build", hidden |-> FALSE]

NoCommands == [n \in {} |-> BuildCommand]

NoOutput == [kind |-> "none", listing |-> {}]

NoResult == [kind |-> "none", code |-> 0]

(* How a subcommand can end: it returns a value (which standalone mode     *)
(* discards), exits with a status (ctx.exit / sys.exit), rejects its own   *)
(* arguments (click.UsageError) or lets an exception escape.               *)
BuildOutcomes ==
    [kind : {"return", "exit"}, code : {0, 3}]
        \cup {[kind |-> "usage", code |-> 2], [kind |-> "exception", code |-> 1]}

(* click < 8.2 exits 0 after the help shown for an empty argument vector,  *)
(* click >= 8.2 exits 2; the repository pins neither.                      *)
NoArgsHelpExit == {0, 2}

Init ==
    /\ pc = "start"
    /\ asMain \in BOOLEAN
    /\ argv \in ArgVectors
    /\ commands = NoCommands
    /\ rest = <<>>
    /\ cmdName = "none"
    /\ calls = <<>>
    /\ buildResult = NoResult
    /\ output = NoOutput
    /\ exitCode = -1
    /\ env = 0

----------------------------------------------------------------------------
(* Module body.                                                            *)

(* @click.group() def cli(): creates the group with no commands.           *)
DefineGroup ==
    /\ pc = "start"
    /\ pc' = "defined"
    /\ commands' = NoCommands
    /\ UNCHANGED <<asMain, argv, rest, cmdName, calls, buildResult, output,
                   exitCode, env>>

AddCommand_WrongName ==
    /\ pc = "defined"
    /\ pc' = "registered"
    /\ commands' = (BuildCommand.callback :> BuildCommand) @@ commands
    /\ UNCHANGED <<asMain, argv, rest, cmdName, calls, buildResult, output,
                   exitCode, env>>

(* cli.add_command(build): commands[build.name] = build.                   *)
AddCommand ==
    /\ pc = "defined"
    /\ pc' = "registered"
    /\ commands' = (BuildCommand.name :> BuildCommand) @@ commands
    /\ UNCHANGED <<asMain, argv, rest, cmdName, calls, buildResult, output,
                   exitCode, env>>

RunMain_BeforeRegistration ==
    /\ pc = "defined"
    /\ asMain
    /\ pc' = "parse"
    /\ UNCHANGED <<asMain, argv, commands, rest, cmdName, calls, buildResult,
                   output, exitCode, env>>

(* if __name__ == '__main__': cli()                                        *)
RunMain ==
    /\ pc = "registered"
    /\ asMain
    /\ pc' = "parse"
    /\ UNCHANGED <<asMain, argv, commands, rest, cmdName, calls, buildResult,
                   output, exitCode, env>>

(* The guard is false: the module was imported, nothing runs.              *)
ImportOnly ==
    /\ pc = "registered"
    /\ ~asMain
    /\ pc' = "imported"
    /\ UNCHANGED <<asMain, argv, commands, rest, cmdName, calls, buildResult,
                   output, exitCode, env>>

----------------------------------------------------------------------------
(* cli(): the group runs on argv in standalone mode.                       *)

(* The subcommand listing of the group's help page: the registered names   *)
(* of the commands that are not hidden.                                    *)
HelpListing(cmds) == {n \in DOMAIN cmds : ~cmds[n].hidden}

HelpOutput == [kind |-> "help", listing |-> HelpListing(commands)]

UsageOutput == [kind |-> "usage", listing |-> {}]

(* The group's option parser (interspersed arguments are off for a group): *)
(* options are consumed from the left until the first token that is not an *)
(* option, or until "--", which is consumed and ends the options.  The     *)
(* only option of the group is --help; any other option is an error raised *)
(* where it is met.                                                        *)
RECURSIVE ScanOptions(_, _)
ScanOptions(args, help) ==
    IF args = <<>>
    THEN [err |-> FALSE, help |-> help, rest |-> <<>>]
    ELSE IF Head(args) = "--"
    THEN [err |-> FALSE, help |-> help, rest |-> Tail(args)]
    ELSE IF Head(args) = "--help"
    THEN ScanOptions(Tail(args), TRUE)
    ELSE IF Head(args) \in OptionLike
    THEN [err |-> TRUE, help |-> help, rest |-> <<>>]
    ELSE [err |-> FALSE, help |-> help, rest |-> args]

Parsed == ScanOptions(argv, FALSE)

(* Ends the run with what was printed and the exit status.                 *)
Exit(out, code) ==
    /\ pc' = "exited"
    /\ output' = out
    /\ exitCode' = code

(* Group.parse_args: no arguments at all shows the help page               *)
(* (no_args_is_help is on for a group).                                    *)
NoArgsHelp ==
    /\ pc = "parse"
    /\ argv = <<>>
    /\ \E code \in NoArgsHelpExit : Exit(HelpOutput, code)
    /\ UNCHANGED <<asMain, argv, commands, rest, cmdName, calls, buildResult, env>>

(* An option the group does not define: usage error, status 2.             *)
NoSuchOption ==
    /\ pc = "parse"
    /\ argv # <<>>
    /\ Parsed.err
    /\ Exit(UsageOutput, 2)
    /\ UNCHANGED <<asMain, argv, commands, rest, cmdName, calls, buildResult, env>>

(* --help was among the parsed options: its callback prints the help page  *)
(* and exits 0.                                                            *)
ShowHelp ==
    /\ pc = "parse"
    /\ argv # <<>>
    /\ ~Parsed.err
    /\ Parsed.help
    /\ Exit(HelpOutput, 0)
    /\ UNCHANGED <<asMain, argv, commands, rest, cmdName, calls, buildResult, env>>

(* Parsing succeeded: what is left goes to the group's invoke.             *)
ParseArgs ==
    /\ pc = "parse"
    /\ argv # <<>>
    /\ ~Parsed.err
    /\ ~Parsed.help
    /\ rest' = Parsed.rest
    /\ pc' = "resolve"
    /\ UNCHANGED <<asMain, argv, commands, cmdName, calls, buildResult, output,
                   exitCode, env>>

(* Group.invoke with nothing left: "Missing command.", status 2.           *)
MissingCommand ==
    /\ pc = "resolve"
    /\ rest = <<>>
    /\ Exit(UsageOutput, 2)
    /\ UNCHANGED <<asMain, argv, commands, rest, cmdName, calls, buildResult, env>>

Lookup_AnyCommand(cmds, name) ==
    IF DOMAIN cmds = {} THEN "none" ELSE CHOOSE n \in DOMAIN cmds : TRUE

(* Group.get_command: the registered command of that exact name, if any.   *)
Lookup(cmds, name) == IF name \in DOMAIN cmds THEN name ELSE "none"

(* Group.resolve_command finds the command named by the first token.       *)
ResolveCommand ==
    /\ pc = "resolve"
    /\ rest # <<>>
    /\ Lookup(commands, Head(rest)) # "none"
    /\ cmdName' = Lookup(commands, Head(rest))
    /\ pc' = "callback"
    /\ UNCHANGED <<asMain, argv, commands, rest, calls, buildResult, output,
                   exitCode, env>>

NoSuchCommand_ExitsZero ==
    /\ pc = "resolve"
    /\ rest # <<>>
    /\ Lookup(commands, Head(rest)) = "none"
    /\ Head(rest) \notin OptionLike
    /\ Exit(UsageOutput, 0)
    /\ UNCHANGED <<asMain, argv, commands, rest, cmdName, calls, buildResult, env>>

(* No command of that name: "No such command", status 2.                   *)
NoSuchCommand ==
    /\ pc = "resolve"
    /\ rest # <<>>
    /\ Lookup(commands, Head(rest)) = "none"
    /\ Head(rest) \notin OptionLike
    /\ Exit(UsageOutput, 2)
    /\ UNCHANGED <<asMain, argv, commands, rest, cmdName, calls, buildResult, env>>

(* No command of that name and the token looks like an option (it followed *)
(* "--"): resolve_command parses the context's arguments again, which are  *)
(* empty by then, so the group shows its help page as for no arguments.    *)
OptionAsCommand ==
    /\ pc = "resolve"
    /\ rest # <<>>
    /\ Lookup(commands, Head(rest)) = "none"
    /\ Head(rest) \in OptionLike
    /\ \E code \in NoArgsHelpExit : Exit(HelpOutput, code)
    /\ UNCHANGED <<asMain, argv, commands, rest, cmdName, calls, buildResult, env>>

GroupCallback_WritesState ==
    /\ pc = "callback"
    /\ pc' = "dispatch"
    /\ env' = env + 1
    /\ UNCHANGED <<asMain, argv, commands, rest, cmdName, calls, buildResult,
                   output, exitCode>>

GroupCallback_Blocks ==
    /\ pc = "callback"
    /\ FALSE
    /\ UNCHANGED vars

(* The group callback, def cli(): pass, runs before the subcommand.        *)
GroupCallback ==
    /\ pc = "callback"
    /\ pc' = "dispatch"
    /\ UNCHANGED <<asMain, argv, commands, rest, cmdName, calls, buildResult,
                   output, exitCode, env>>

SubcommandArgs_KeepsName(args) == args

(* The arguments handed to the subcommand: all that follow its name.       *)
SubcommandArgs(args) == Tail(args)

InvokeSubcommand_Twice ==
    /\ pc = "dispatch"
    /\ calls' = calls \o
           << [callback |-> commands[cmdName].callback, args |-> SubcommandArgs(rest)],
              [callback |-> commands[cmdName].callback, args |-> SubcommandArgs(rest)] >>
    /\ pc' = "in_build"
    /\ UNCHANGED <<asMain, argv, commands, rest, cmdName, buildResult, output,
                   exitCode, env>>

(* cmd.make_context(cmd_name, args) and cmd.invoke: the resolved command   *)
(* is invoked with the remaining arguments.                                *)
InvokeSubcommand ==
    /\ pc = "dispatch"
    /\ calls' = Append(calls, [callback |-> commands[cmdName].callback,
                               args |-> SubcommandArgs(rest)])
    /\ pc' = "in_build"
    /\ UNCHANGED <<asMain, argv, commands, rest, cmdName, buildResult, output,
                   exitCode, env>>

(* The subcommand ends, having changed the outside world or not.           *)
BuildReturns ==
    /\ pc = "in_build"
    /\ \E r \in BuildOutcomes : buildResult' = r
    /\ \E e \in {env, env + 1} : env' = e
    /\ pc' = "finish"
    /\ UNCHANGED <<asMain, argv, commands, rest, cmdName, calls, output, exitCode>>

StandaloneExit_AlwaysZero(r) == 0

(* The exit status main() gives in standalone mode: a returned value is    *)
(* dropped and the status is 0; Exit / SystemExit carry their code; a      *)
(* UsageError exits 2; an escaping exception ends the interpreter with 1.  *)
StandaloneExit(r) ==
    CASE r.kind = "return" -> 0
      [] r.kind = "exit" -> r.code
      [] r.kind = "usage" -> 2
      [] OTHER -> 1

(* What the run has printed once the subcommand ended.                     *)
FinalOutput(r) ==
    CASE r.kind = "usage" -> UsageOutput
      [] r.kind = "exception" -> [kind |-> "traceback", listing |-> {}]
      [] OTHER -> [kind |-> "subcommand", listing |-> {}]

(* main() ends the process after the subcommand.                           *)
MainExit ==
    /\ pc = "finish"
    /\ Exit(FinalOutput(buildResult), StandaloneExit(buildResult))
    /\ UNCHANGED <<asMain, argv, commands, rest, cmdName, calls, buildResult, env>>

----------------------------------------------------------------------------
(* Steps of the entry point and of click on its behalf.                    *)
EntryPointStep ==
    \/ DefineGroup
    \/ AddCommand
    \/ RunMain
    \/ ImportOnly
    \/ NoArgsHelp
    \/ NoSuchOption
    \/ ShowHelp
    \/ ParseArgs
    \/ MissingCommand
    \/ ResolveCommand
    \/ NoSuchCommand
    \/ OptionAsCommand
    \/ GroupCallback
    \/ InvokeSubcommand
    \/ MainExit

Next == EntryPointStep \/ BuildReturns

Spec == Init /\ [][Next]_vars

(* The interpreter keeps executing the entry point, and the subcommand     *)
(* that was invoked returns.                                               *)
LiveSpec == Spec /\ WF_vars(EntryPointStep) /\ WF_vars(BuildReturns)

----------------------------------------------------------------------------
(* Properties.                                                             *)

(* Position in args of its first token that is not an option, 0 if none.   *)
FirstNonOption(args) ==
    IF \E i \in 1..Len(args) : args[i] \notin OptionLike
    THEN CHOOSE i \in 1..Len(args) :
             /\ args[i] \notin OptionLike
             /\ \A j \in 1..(i - 1) : args[j] \in OptionLike
    ELSE 0

(* The first token of args that is not an option, "none" if there is none. *)
SubcommandToken(args) ==
    IF FirstNonOption(args) = 0 THEN "none" ELSE args[FirstNonOption(args)]

(* The subcommand token comes first, or right after a single "--".         *)
Unprefixed(args) ==
    \/ FirstNonOption(args) = 1
    \/ FirstNonOption(args) = 2 /\ args[1] = "--"

BuildInvokedOnce ==
    /\ Len(calls) = 1
    /\ calls[1].callback = BuildCommand.callback

(* C1, as stated: whenever the first non-option token of the argument      *)
(* vector is `build`, the run has invoked the build callable exactly once  *)
(* and no other handler.                                                   *)
C1_AsStated ==
    (pc = "exited" /\ SubcommandToken(argv) = "build") => BuildInvokedOnce

(* C1, amended: whenever `build` is the first token of the argument        *)
(* vector, or follows a single "--" that is the first token, the run has   *)
(* invoked the build callable exactly once and no other handler.           *)
C1_BuildDispatched ==
    (pc = "exited" /\ SubcommandToken(argv) = "build" /\ Unprefixed(argv))
        => BuildInvokedOnce

C1_Witness ==
    /\ pc = "exited"
    /\ argv = <<"--", "build", "x">>
    /\ BuildInvokedOnce

UsageFailure ==
    /\ exitCode # 0
    /\ output.kind = "usage"
    /\ calls = <<>>

Running == pc \notin {"start", "defined", "registered", "imported"}

(* C3: a run with no arguments, or with --help alone, prints the help page *)
(* whose subcommand listing is exactly {build}; any help page the group    *)
(* prints lists exactly {build}; and from the moment the group is run its  *)
(* registered subcommands are exactly {build}.                             *)
C3_HelpListsBuild ==
    /\ (pc = "exited" /\ (argv = <<>> \/ argv = <<"--help">>))
           => (output.kind = "help" /\ output.listing = {"build"})
    /\ output.kind = "help" => output.listing = {"build"}
    /\ Running => DOMAIN commands = {"build"}

C3_Witness ==
    /\ pc = "exited"
    /\ argv = <<"--help">>
    /\ output = [kind |-> "help", listing |-> {"build"}]
    /\ exitCode = 0

(* C4: once a subcommand was invoked, the exit status is the one the       *)
(* subcommand produced: 0 when it returned, the status it exited with,     *)
(* 2 for its usage error, nonzero for an escaping exception; when no       *)
(* subcommand was invoked the status is one of click's own, 0 or 2.        *)
C4_ExitStatusPropagated ==
    pc = "exited" =>
        /\ calls # <<>> =>
               /\ buildResult.kind = "return" => exitCode = 0
               /\ buildResult.kind = "exit" => exitCode = buildResult.code
               /\ buildResult.kind = "usage" => exitCode = 2
               /\ buildResult.kind = "exception" => exitCode # 0
        /\ calls = <<>> => (buildResult = NoResult /\ exitCode \in {0, 2})

C4_Witness ==
    /\ pc = "exited"
    /\ calls # <<>>
    /\ buildResult = [kind |-> "exit", code |-> 3]
    /\ exitCode = 3

(* C5: the subcommand is invoked with exactly the tokens that follow its   *)
(* name in the argument vector, in the same order.                         *)
C5_ArgsPassedUnchanged ==
    \A k \in 1..Len(calls) :
        /\ SubcommandToken(argv) = "build"
        /\ calls[k].args = SubSeq(argv, FirstNonOption(argv) + 1, Len(argv))

C5_Witness ==
    /\ pc = "exited"
    /\ argv = <<"build", "x", "--help">>
    /\ calls = <<[callback |-> "commands.build", args |-> <<"x", "--help">>]>>

(* C6: the world outside the process changes only while the subcommand     *)
(* runs; the group callback changes nothing but the position of the run;   *)
(* and a run that invoked no subcommand leaves the world as it was.        *)
C6_NoSideEffects ==
    /\ [][env' # env => pc = "in_build"]_vars
    /\ [][pc = "callback" =>
            UNCHANGED <<asMain, argv, commands, rest, cmdName, calls,
                        buildResult, output, exitCode, env>>]_vars
    /\ [](calls = <<>> => env = 0)

C6_Witness ==
    /\ pc = "exited"
    /\ calls = <<>>
    /\ output.kind = "usage"
    /\ env = 0

(* The explicit dispatcher of the design note: a mapping from command name *)
(* to handler, looked up with the first token and invoked with the rest.   *)
HandlerMap == [n \in {"build"} |-> "commands.build"]

ExplicitDispatch(args) ==
    IF args # <<>> /\ Head(args) \in DOMAIN HandlerMap
    THEN [handler |-> HandlerMap[Head(args)], args |-> Tail(args), class |-> "handler"]
    ELSE [handler |-> "none", args |-> <<>>, class |-> "usage"]

(* What the run of the group selected, passed and ended with.              *)
ProgramDispatch ==
    IF calls # <<>>
    THEN [handler |-> calls[1].callback, args |-> calls[1].args, class |-> "handler"]
    ELSE [handler |-> "none", args |-> <<>>,
          class |-> IF output.kind = "usage" /\ exitCode # 0 THEN "usage" ELSE "other"]

C8_Terminates ==
    /\ asMain ~> pc = "exited"
    /\ []((Running /\ pc \notin {"exited", "in_build"}) => ENABLED EntryPointStep)

C8_Witness ==
    /\ pc = "exited"
    /\ calls # <<>>
    /\ buildResult.kind = "return"

(* C9: build is registered before the group runs, a handler is invoked     *)
(* only after the subcommand name was matched, at most one handler is      *)
(* invoked in a run, and none is invoked once a usage error was reported.  *)
C9_Ordering ==
    /\ [](Running => "build" \in DOMAIN commands)
    /\ [](calls # <<>> => (cmdName = "build" /\ rest # <<>> /\ Head(rest) = cmdName))
    /\ [](Len(calls) <= 1)
    /\ [][output.kind = "usage" => calls' = calls]_vars
    /\ [][calls' # calls => pc = "dispatch"]_vars

C9_Witness ==
    /\ pc = "in_build"
    /\ Len(calls) = 1
    /\ cmdName = "build"
    /\ "build" \in DOMAIN commands

====
